---- MODULE Spec2Model ----
(***************************************************************************)
(* Model of rust-fkvs (src/src/lib.rs, src/src/mock.rs): a key-value store *)
(* on page-erasable flash.                                                 *)
(*                                                                         *)
(* The flash is an array of pages; each page holds a page header and a     *)
(* stream of entries.  The methods of Kvs are modelled statement by        *)
(* statement.  Several bodies in lib.rs are the single statement           *)
(* unimplemented!(), which panics: the model gives these calls the         *)
(* outcome "Panic".  The struct value is kept after a call has ended, so   *)
(* that each method can be examined in turn.                               *)
(***************************************************************************)
EXTENDS Integers, Sequences, FiniteSets, TLC

(* ------------------------------ bounds --------------------------------- *)

\* largest opts.num_pages drawn at start
MaxPages == 2

\* calls made on the store when the flash starts erased
MaxCalls == 4

\* calls made on the store when the flash starts with a stored image
MaxImageCalls == 2

\* entries in a stored page
MaxEntries == 2

\* calls of Kvs::new when only the opening of the store is examined
MaxOpenCalls == 1

\* calls of erase_all when only erase_all is examined
MaxEraseCalls == 1

(* ------------------------- program constants --------------------------- *)

\* mock.rs:27  const PAGE_SIZE: usize = 2048
PAGE_SIZE == 2048

\* a u32 (PageHeader.index, Kvs.page_active) is kept as its two 16-bit halves,
\* value = hi * 2^16 + lo
TwoPow16 == 65536
U32(hi, lo) == [hi |-> hi, lo |-> lo]
Zero32 == U32(0, 0)
One32 == U32(0, 1)
MaxU32 == U32(TwoPow16 - 1, TwoPow16 - 1)

\* a < b on u32
Lt32(a, b) == a.hi < b.hi \/ (a.hi = b.hi /\ a.lo < b.lo)

\* bytes of a PageHeader: version u8, kind u8, index u32, flags u16 (lib.rs:72-81)
PageHeaderSize == 8

\* bytes of an EntryHeader: index, flags, key_len, val_len, each u16 (lib.rs:97-106)
EntryHeaderSize == 8

\* value of an erased byte (mock.rs:45)
ErasedByte == 255

\* lib.rs:74 "File system version ID, MUST be 1"
FsVersion == 1

\* lib.rs:54 PageKind::Standard = 0x00
KindStandard == 0

(* flag bits of PageFlags / EntryFlags; DEFAULT = 0xFFFF has every bit set. *)
(* The fourteen bits without a name are kept as one element "REST".        *)
INACTIVE == "INACTIVE"
VALID == "VALID"
DEFAULT == {INACTIVE, VALID, "REST"}

(* the three legal flag states and the impossible one *)
FlagsFree == DEFAULT
FlagsActive == DEFAULT \ {INACTIVE}
FlagsExpired == DEFAULT \ {INACTIVE, VALID}
FlagsCorrupt == DEFAULT \ {VALID}

IsFree(fl) == INACTIVE \in fl /\ VALID \in fl
IsActive(fl) == INACTIVE \notin fl /\ VALID \in fl
IsExpired(fl) == INACTIVE \notin fl /\ VALID \notin fl

(* ------------------------------ inputs --------------------------------- *)

\* keys are byte strings
Keys == {<<97>>, <<98>>}

\* a value [len, byte] stands for the byte string of len bytes, each = byte
Bytes(n, b) == [len |-> n, byte |-> b]
Values == {Bytes(1, 1), Bytes(1, 2), Bytes(1100, 3), Bytes(2048, 4)}
NoValue == Bytes(0, 0)

\* lengths of the caller's buffer for read
BufLens == {1, 1100}

\* errors of the flash capability (Flash::Error)
FlashErrs == {"E1", "E2"}

PageNums == 0 .. MaxPages

(* ------------------------------ flash ---------------------------------- *)

\* header of an erased page: every byte 0xFF
ErasedHeader ==
    [version |-> ErasedByte, kind |-> ErasedByte, index |-> MaxU32, flags |-> DEFAULT]

ErasedPage == [hdr |-> ErasedHeader, entries |-> <<>>]

ErasedFlash == [p \in PageNums |-> ErasedPage]

(* ------------------------------ results -------------------------------- *)

Ok(n) == [tag |-> "Ok", n |-> n, err |-> "-"]
ErrFlash(e) == [tag |-> "Err", n |-> 0, err |-> e]
Panic == [tag |-> "Panic", n |-> 0, err |-> "not implemented"]
Interrupted == [tag |-> "Reset", n |-> 0, err |-> "-"]

VARIABLES
    flash,          \* the flash array: page number -> page
    opts,           \* Options {start_addr, num_pages}
    page_active,    \* Kvs.page_active
    page_offset,    \* Kvs.page_offset
    pc,             \* "off", "idle", or the method that is running
    i,              \* loop variable of init / erase_all
    current_index,  \* Option<u32> of init: {} is None, {x} is Some(x)
    call,           \* the call in progress
    hist,           \* the calls that have ended, oldest first
    budget          \* calls still allowed

vars == <<flash, opts, page_active, page_offset, pc, i, current_index, call, hist, budget>>

NoCall ==
    [op |-> "-", key |-> <<>>, val |-> NoValue, buflen |-> 0,
     pre |-> ErasedFlash, pa0 |-> Zero32, po0 |-> 0, ferr |-> FALSE, muts |-> 0,
     buf |-> NoValue, ops |-> <<>>, fmt |-> FALSE]

NewCall(op, k, v, n) ==
    [op |-> op, key |-> k, val |-> v, buflen |-> n,
     pre |-> flash, pa0 |-> page_active, po0 |-> page_offset, ferr |-> FALSE, muts |-> 0,
     buf |-> NoValue, ops |-> <<>>, fmt |-> FALSE]

\* the record kept of a call that ended with result r
Ended(c, r) ==
    [op |-> c.op, key |-> c.key, val |-> c.val, buflen |-> c.buflen,
     pre |-> c.pre, pa0 |-> c.pa0, po0 |-> c.po0, ferr |-> c.ferr, muts |-> c.muts,
     buf |-> c.buf, ops |-> c.ops, fmt |-> c.fmt, res |-> r, post |-> flash]

\* a flash operation the call issued: its kind, its address, and its outcome
\* ("ok", or the error the flash returned)
FlashOp(kind, addr, out) == [kind |-> kind, addr |-> addr, out |-> out]

\* the call after it issued the flash operation op
Issued(c, op) == [c EXCEPT !.ops = Append(@, op)]

\* the call after the flash operation op failed
Failed(c, op) == [c EXCEPT !.ops = Append(@, op), !.ferr = TRUE]

(* --------------------------- flash capability -------------------------- *)

\* the page that holds byte address addr
PageOf(addr) == addr \div PAGE_SIZE

\* Flash::erase_page(addr): every byte of the page becomes 0xFF
ErasePage(f, addr) == [f EXCEPT ![PageOf(addr)] = ErasedPage]

\* get_page_header(addr): the header stored at the start of the page at addr
GetPageHeader(f, addr) == f[PageOf(addr)].hdr

(* ------------------------------ Kvs::init ------------------------------ *)

\* lib.rs:147-151: the match that tracks the current index
TrackIndex(c, idx) ==
    IF c = {} THEN {idx}
    ELSE LET x == CHOOSE y \in c : TRUE
         IN  IF Lt32(x, idx) THEN {idx} ELSE c

\* ScanHeader with the test of VALID inverted
ScanHeaderInverted(c, h) ==
    IF INACTIVE \in h.flags THEN c
    ELSE IF VALID \in h.flags THEN c
    ELSE TrackIndex(c, h.index)

\* lib.rs:137-151: what one header does to current_index
ScanHeader(c, h) ==
    IF INACTIVE \in h.flags THEN c
    ELSE IF VALID \notin h.flags THEN c
    ELSE TrackIndex(c, h.index)

EndCall(r) ==
    /\ hist' = Append(hist, Ended(call, r))
    /\ call' = NoCall
    /\ pc' = "idle"
    /\ i' = 0
    /\ current_index' = {}

\* Kvs::new, lib.rs:121-124: build the struct and enter init
New ==
    /\ pc \in {"off", "idle"}
    /\ budget > 0
    /\ budget' = budget - 1
    /\ page_active' = Zero32
    /\ page_offset' = 0
    /\ pc' = "init"
    /\ i' = 0
    /\ current_index' = {}
    /\ call' = NewCall("new", <<>>, NoValue, 0)
    /\ UNCHANGED <<flash, opts, hist>>

\* InitScan with a failed header read treated as a page to skip
InitScanSwallow ==
    /\ pc = "init"
    /\ i < opts.num_pages
    /\ \/ /\ current_index' = ScanHeader(current_index, GetPageHeader(flash, i * PAGE_SIZE))
          /\ call' = Issued(call, FlashOp("read", i * PAGE_SIZE, "ok"))
       \/ \E e \in FlashErrs :
              /\ current_index' = current_index
              /\ call' = Failed(call, FlashOp("read", i * PAGE_SIZE, e))
    /\ i' = i + 1
    /\ UNCHANGED <<flash, opts, page_active, page_offset, budget, pc, hist>>

\* one iteration of the loop of init, lib.rs:132-152
InitScan ==
    /\ pc = "init"
    /\ i < opts.num_pages
    /\ \/ \* get_page_header returns the header
          /\ current_index' = ScanHeader(current_index, GetPageHeader(flash, i * PAGE_SIZE))
          /\ i' = i + 1
          /\ call' = Issued(call, FlashOp("read", i * PAGE_SIZE, "ok"))
          /\ UNCHANGED <<pc, hist>>
       \/ \* get_page_header fails: `?` returns the error out of init and new
          \E e \in FlashErrs :
              /\ hist' = Append(hist,
                     Ended(Failed(call, FlashOp("read", i * PAGE_SIZE, e)), ErrFlash(e)))
              /\ call' = NoCall
              /\ pc' = "idle"
              /\ i' = 0
              /\ current_index' = {}
    /\ UNCHANGED <<flash, opts, page_active, page_offset, budget>>

\* the match after the loop, lib.rs:154-167.  Some(i): page_active is set and
\* unimplemented!() panics; None: format() is called, whose body panics.
InitFinish ==
    /\ pc = "init"
    /\ i = opts.num_pages
    /\ page_active' = IF current_index = {} THEN page_active
                      ELSE CHOOSE x \in current_index : TRUE
    /\ hist' = Append(hist, Ended([call EXCEPT !.fmt = (current_index = {})], Panic))
    /\ call' = NoCall
    /\ pc' = "idle"
    /\ i' = 0
    /\ current_index' = {}
    /\ UNCHANGED <<flash, opts, page_offset, budget>>

(* ------------------------- Kvs::read, Kvs::write ----------------------- *)

ReadCall ==
    /\ pc = "idle"
    /\ budget > 0
    /\ budget' = budget - 1
    /\ \E k \in Keys, n \in BufLens : call' = NewCall("read", k, NoValue, n)
    /\ pc' = "read"
    /\ UNCHANGED <<flash, opts, page_active, page_offset, i, current_index, hist>>

\* lib.rs:176-184: the body is unimplemented!()
ReadBody ==
    /\ pc = "read"
    /\ EndCall(Panic)
    /\ UNCHANGED <<flash, opts, page_active, page_offset, budget>>

WriteCall ==
    /\ pc = "idle"
    /\ budget > 0
    /\ budget' = budget - 1
    /\ \E k \in Keys, v \in Values : call' = NewCall("write", k, v, 0)
    /\ pc' = "write"
    /\ UNCHANGED <<flash, opts, page_active, page_offset, i, current_index, hist>>

\* lib.rs:187-199: the body is unimplemented!()
WriteBody ==
    /\ pc = "write"
    /\ EndCall(Panic)
    /\ UNCHANGED <<flash, opts, page_active, page_offset, budget>>

(* ---------------------------- Kvs::erase_all --------------------------- *)

EraseAllCall ==
    /\ pc = "idle"
    /\ budget > 0
    /\ budget' = budget - 1
    /\ call' = NewCall("erase_all", <<>>, NoValue, 0)
    /\ pc' = "erase_all"
    /\ i' = 0
    /\ UNCHANGED <<flash, opts, page_active, page_offset, current_index, hist>>

\* EraseStep with a failed erase ignored: the loop goes on to the next page
EraseStepContinue ==
    /\ pc = "erase_all"
    /\ i < opts.num_pages
    /\ \/ /\ flash' = ErasePage(flash, i * PAGE_SIZE)
          /\ call' = [Issued(call, FlashOp("erase", i * PAGE_SIZE, "ok")) EXCEPT !.muts = @ + 1]
       \/ \E e \in FlashErrs :
              /\ call' = Failed(call, FlashOp("erase", i * PAGE_SIZE, e))
              /\ UNCHANGED flash
    /\ i' = i + 1
    /\ UNCHANGED <<opts, page_active, page_offset, budget, pc, hist, current_index>>

\* one iteration of the loop of erase_all, lib.rs:203-205
EraseStep ==
    /\ pc = "erase_all"
    /\ i < opts.num_pages
    /\ \/ /\ flash' = ErasePage(flash, i * PAGE_SIZE)
          /\ call' = [Issued(call, FlashOp("erase", i * PAGE_SIZE, "ok")) EXCEPT !.muts = @ + 1]
          /\ i' = i + 1
          /\ UNCHANGED <<pc, hist, current_index>>
       \/ \E e \in FlashErrs :
              /\ hist' = Append(hist,
                     Ended(Failed(call, FlashOp("erase", i * PAGE_SIZE, e)), ErrFlash(e)))
              /\ call' = NoCall
              /\ pc' = "idle"
              /\ i' = 0
              /\ UNCHANGED <<flash, current_index>>
    /\ UNCHANGED <<opts, page_active, page_offset, budget>>

\* lib.rs:207: Ok(())
EraseAllDone ==
    /\ pc = "erase_all"
    /\ i = opts.num_pages
    /\ EndCall(Ok(0))
    /\ UNCHANGED <<flash, opts, page_active, page_offset, budget>>

(* -------------------------------- reset -------------------------------- *)

\* an uncontrolled reset: the running call is cut off, the struct is lost,
\* the flash keeps its content
Reset ==
    /\ pc # "off"
    /\ hist' = IF pc = "idle" THEN hist ELSE Append(hist, Ended(call, Interrupted))
    /\ call' = NoCall
    /\ pc' = "off"
    /\ i' = 0
    /\ current_index' = {}
    /\ page_active' = Zero32
    /\ page_offset' = 0
    /\ UNCHANGED <<flash, opts, budget>>

(* ---------------------------- specifications --------------------------- *)

Configs == {[start_addr |-> 0, num_pages |-> n] : n \in 1 .. MaxPages}

InitStore ==
    /\ page_active = Zero32
    /\ page_offset = 0
    /\ pc = "off"
    /\ i = 0
    /\ current_index = {}
    /\ call = NoCall
    /\ hist = <<>>

\* the flash starts erased
Init ==
    /\ InitStore
    /\ opts \in Configs
    /\ flash = ErasedFlash
    /\ budget = MaxCalls

Next ==
    \/ New
    \/ InitScan
    \/ InitFinish
    \/ ReadCall
    \/ ReadBody
    \/ WriteCall
    \/ WriteBody
    \/ EraseAllCall
    \/ EraseStep
    \/ EraseAllDone
    \/ Reset

Spec == Init /\ [][Next]_vars

(* --------------------------- stored flash images ----------------------- *)

\* headers a page can carry when the store is opened
WrittenHeaders ==
    {[version |-> FsVersion, kind |-> KindStandard, index |-> x, flags |-> f] :
        x \in {Zero32, MaxU32},
        f \in {FlagsFree, FlagsActive, FlagsExpired, FlagsCorrupt}}

HeaderImages ==
    {ErasedHeader} \cup WrittenHeaders
    \cup {[version |-> v, kind |-> KindStandard, index |-> One32, flags |-> FlagsActive] :
             v \in {FsVersion, 2}}

\* the pages the configuration names
Configured(o) == {PageOf(o.start_addr) + j : j \in 0 .. o.num_pages - 1}

\* the flash starts with any headers in the configured pages and no entries
InitImage ==
    /\ InitStore
    /\ opts \in Configs
    /\ flash \in [PageNums -> {[hdr |-> h, entries |-> <<>>] : h \in HeaderImages}]
    /\ \A p \in PageNums \ Configured(opts) : flash[p] = ErasedPage
    /\ budget = MaxImageCalls

SpecImage == InitImage /\ [][Next]_vars

\* entries a page can carry: EntryHeader {index, flags, key_len, val_len}, key, value
StoredValues == {Bytes(1, 1), Bytes(1100, 3)}
EntryImages ==
    {[flags |-> f, key |-> k, val |-> v] :
        f \in {FlagsActive, FlagsExpired}, k \in Keys, v \in StoredValues}

\* entry streams of at most MaxEntries entries; the entry index is the position
EntryStreams == UNION {[1 .. n -> EntryImages] : n \in 0 .. MaxEntries}

ActiveHeader(x) ==
    [version |-> FsVersion, kind |-> KindStandard, index |-> x, flags |-> FlagsActive]

\* the flash starts with page 0 active and holding any entry stream
InitEntries ==
    /\ InitStore
    /\ opts \in Configs
    /\ \E es \in EntryStreams :
           flash = [p \in PageNums |->
                       IF p = 0 THEN [hdr |-> ActiveHeader(Zero32), entries |-> es]
                       ELSE ErasedPage]
    /\ budget = MaxImageCalls

SpecEntries == InitEntries /\ [][Next]_vars

(* ------------------------ vocabulary of the claims --------------------- *)

\* the call that ended last
HasLast == Len(hist) > 0
Last == hist[Len(hist)]

\* a call that ran to its end without a reset and without a flash failure
Completed(h) == h.res.tag # "Reset" /\ ~h.ferr

\* a is newer than b: (a - b) taken as a signed 32-bit value is positive
Newer32(a, b) ==
    LET dlo0 == a.lo - b.lo
        borrow == IF dlo0 < 0 THEN 1 ELSE 0
        dlo == dlo0 % TwoPow16
        dhi == (a.hi - b.hi - borrow) % TwoPow16
    IN  dhi < TwoPow16 \div 2 /\ (dhi # 0 \/ dlo # 0)

\* the configured pages of image f whose header is Active
ActivePages(f) == {p \in Configured(opts) : IsActive(f[p].hdr.flags)}

ActiveIndices(f) == {f[p].hdr.index : p \in ActivePages(f)}

\* the newest of a set of indices under wraparound comparison
IsWrapNewest(x, S) == x \in S /\ \A y \in S \ {x} : Newer32(x, y)

\* positions of the Active entries of key k in page pg
LiveEntries(pg, k) ==
    {j \in DOMAIN pg.entries : pg.entries[j].key = k /\ IsActive(pg.entries[j].flags)}

SetMax(S) == CHOOSE x \in S : \A y \in S : y <= x

\* the current value of key k in image f: {} when k has none
CurrentValue(f, k) ==
    {f[p].entries[SetMax(LiveEntries(f[p], k))].val :
        p \in {q \in ActivePages(f) : LiveEntries(f[q], k) # {}}}

ErrNotFound == [tag |-> "Err", n |-> 0, err |-> "NotFound"]

\* read returned the whole of v
Returned(h, v) == h.res = Ok(v.len) /\ h.buf = v

(* ------------------------------- claims -------------------------------- *)

\* C2: latest-wins.  After write(k, v1) then write(k, v2) with v1 # v2, a
\* read(k) with a buffer that holds v2 returns v2, and no entry of k that
\* holds v1 is still Active.
C2_LatestWins ==
    \A n \in 3 .. Len(hist) :
        LET w1 == hist[n - 2]
            w2 == hist[n - 1]
            r == hist[n]
        IN  (/\ w1.op = "write" /\ w2.op = "write" /\ r.op = "read"
             /\ Completed(w1) /\ Completed(w2) /\ Completed(r)
             /\ w1.key = w2.key /\ r.key = w2.key
             /\ w1.val # w2.val
             /\ r.buflen >= w2.val.len)
            => /\ Returned(r, w2.val)
               /\ \A p \in Configured(opts) : \A j \in DOMAIN r.post[p].entries :
                      LET e == r.post[p].entries[j]
                      IN  (e.key = w1.key /\ e.val = w1.val) => ~IsActive(e.flags)

\* C3: crash recovery.  When a reset cuts write(k, v_new) off, and the store is
\* reopened with Kvs::new and k is read, the read yields the value k had
\* before the write (NotFound when it had none) or v_new in full.
C3_CrashRecovery ==
    \A n \in 3 .. Len(hist) :
        LET w == hist[n - 2]
            o == hist[n - 1]
            r == hist[n]
            old == CurrentValue(w.pre, w.key)
        IN  (/\ w.op = "write" /\ w.res.tag = "Reset"
             /\ o.op = "new" /\ Completed(o)
             /\ r.op = "read" /\ Completed(r) /\ r.key = w.key
             /\ r.buflen >= w.val.len
             /\ \A v \in old : r.buflen >= v.len)
            => \/ Returned(r, w.val)
               \/ \E v \in old : Returned(r, v)
               \/ old = {} /\ r.res = ErrNotFound

\* bytes an entry of key k and value v takes, and what one page can hold
EntrySize(k, v) == EntryHeaderSize + Len(k) + v.len
PageCapacity == PAGE_SIZE - PageHeaderSize
Fits(k, v) == EntrySize(k, v) <= PageCapacity

\* the value last passed to a write of key k among the first n calls: {} when none
RECURSIVE LatestWritten(_, _)
LatestWritten(n, k) ==
    IF n = 0 THEN {}
    ELSE IF hist[n].op = "write" /\ hist[n].key = k /\ Completed(hist[n])
         THEN {hist[n].val}
         ELSE LatestWritten(n - 1, k)

\* bytes of key and value the first n calls asked the store to append: a write
\* of the value the key already has appends nothing
RECURSIVE AppendedBytes(_)
AppendedBytes(n) ==
    IF n = 0 THEN 0
    ELSE LET h == hist[n]
         IN  AppendedBytes(n - 1) +
             (IF h.op = "write" /\ Completed(h) /\ LatestWritten(n - 1, h.key) # {h.val}
              THEN Len(h.key) + h.val.len
              ELSE 0)

\* C4: rollover preserves data.  Once the writes no longer fit one page (so
\* that a rollover was forced; the store has a second page to roll over to),
\* a read of a written key returns the value written last for it, and the
\* page that was active before is Expired.
C4_RolloverPreserves ==
    \A n \in 1 .. Len(hist) :
        LET r == hist[n]
            w == LatestWritten(n - 1, r.key)
        IN  (/\ r.op = "read" /\ Completed(r)
             /\ opts.num_pages >= 2
             /\ \A j \in 1 .. n - 1 : hist[j].op = "write" => Fits(hist[j].key, hist[j].val)
             /\ AppendedBytes(n - 1) > PAGE_SIZE
             /\ w # {}
             /\ \A v \in w : r.buflen >= v.len)
            => /\ \E v \in w : Returned(r, v)
               /\ \E p \in Configured(opts) : IsExpired(r.post[p].hdr.flags)

\* C5: idempotent write.  When the current Active entry of k holds exactly v,
\* write(k, v) returns success, issues no flash write or erase, and leaves
\* page_active and page_offset as they were.
C5_IdempotentWrite ==
    (/\ HasLast /\ pc = "idle"
     /\ Last.op = "write" /\ Completed(Last)
     /\ CurrentValue(Last.pre, Last.key) = {Last.val})
    => /\ Last.res = Ok(0)
       /\ Last.muts = 0
       /\ Last.post = Last.pre
       /\ page_active = Last.pa0
       /\ page_offset = Last.po0

\* C6: open on blank flash formats the store.  When Kvs::new finds no Active
\* page header, construction succeeds, every configured page has been erased,
\* and the first page carries an Active header with index 0 and no entries.
C6_BlankFlashFormats ==
    (/\ HasLast /\ pc = "idle"
     /\ Last.op = "new" /\ Completed(Last)
     /\ ActivePages(Last.pre) = {})
    => /\ Last.res.tag = "Ok"
       /\ Last.muts >= opts.num_pages
       /\ \A p \in Configured(opts) :
              flash[p] = IF p = PageOf(opts.start_addr)
                         THEN [hdr |-> ActiveHeader(Zero32), entries |-> <<>>]
                         ELSE ErasedPage

\* C7: wraparound safety of the recovery scan.  Among the pages whose header
\* is Active, Kvs::init selects the one whose index is newest under
\* wraparound comparison.
C7_WrapNewestSelected ==
    (/\ HasLast /\ pc = "idle"
     /\ Last.op = "new" /\ Completed(Last)
     /\ ActiveIndices(Last.pre) # {})
    => IsWrapNewest(page_active, ActiveIndices(Last.pre))

\* C10: read of an absent key fails with NotFound.  When the key has no Active
\* entry in the active page, read returns the NotFound error and no byte count.
C10_AbsentKeyNotFound ==
    \A n \in 1 .. Len(hist) :
        LET r == hist[n]
        IN  (r.op = "read" /\ Completed(r) /\ CurrentValue(r.pre, r.key) = {})
            => r.res = ErrNotFound

ErrBufferTooSmall(n) == [tag |-> "Err", n |-> n, err |-> "BufferTooSmall"]
ErrNoSpace == [tag |-> "Err", n |-> 0, err |-> "NoSpace"]

\* C11: read into a short buffer.  When the current value of the key has
\* length n and the buffer is shorter, read fails with BufferTooSmall
\* reporting n, and a read that follows with a buffer of length n returns the
\* value.
C11_ShortBuffer ==
    \A n \in 1 .. Len(hist) :
        LET r == hist[n]
            cur == CurrentValue(r.pre, r.key)
        IN  \A v \in cur :
              (r.op = "read" /\ Completed(r) /\ r.buflen < v.len)
              => /\ r.res = ErrBufferTooSmall(v.len)
                 /\ (/\ n < Len(hist)
                     /\ hist[n + 1].op = "read" /\ Completed(hist[n + 1])
                     /\ hist[n + 1].key = r.key /\ hist[n + 1].buflen >= v.len)
                    => Returned(hist[n + 1], v)

\* C14: write reports NoSpace when the entry can never fit.  When entry
\* header, key and value together exceed the capacity of a page, write fails
\* with NoSpace and every key keeps the value it had.
C14_NoSpace ==
    \A n \in 1 .. Len(hist) :
        LET w == hist[n]
        IN  (w.op = "write" /\ Completed(w) /\ ~Fits(w.key, w.val))
            => /\ w.res = ErrNoSpace
               /\ \A k \in Keys : CurrentValue(w.post, k) = CurrentValue(w.pre, k)

\* offset in its page of the end of the last entry of page pg
RECURSIVE EndOffset(_, _)
EndOffset(pg, n) ==
    IF n = 0 THEN PageHeaderSize
    ELSE EndOffset(pg, n - 1) + EntrySize(pg.entries[n].key, pg.entries[n].val)

\* C18: reopen restores the runtime state.  When Kvs::new finds a qualifying
\* Active page, construction succeeds, page_active identifies that page and
\* page_offset is the end of the last entry of that page.
C18_ReopenRestores ==
    (/\ HasLast /\ pc = "idle"
     /\ Last.op = "new" /\ Completed(Last))
    => \A p \in ActivePages(Last.pre) :
          (ActivePages(Last.pre) = {p} /\ Last.pre[p].hdr.version = FsVersion)
          => /\ Last.res.tag = "Ok"
             /\ page_active = Last.pre[p].hdr.index
             /\ page_offset = EndOffset(Last.pre[p], Len(Last.pre[p].entries))

(* ------------------- configurations with a start address --------------- *)

\* configurations whose region starts at address 0 or one page further on
OffsetConfigs ==
    {o \in [start_addr : {0, PAGE_SIZE}, num_pages : 1 .. MaxPages] :
        PageOf(o.start_addr) + o.num_pages - 1 <= MaxPages}

InitOffset ==
    /\ InitStore
    /\ opts \in OffsetConfigs
    /\ flash = ErasedFlash
    /\ budget = MaxImageCalls

SpecOffset == InitOffset /\ [][Next]_vars

\* the calls that have ended and the call in progress
Calls == {hist[n] : n \in 1 .. Len(hist)} \cup {Ended(call, Interrupted)}

\* C13: the store stays inside its configured region.  Every flash operation
\* of Kvs::new and erase_all targets an address in
\* [start_addr, start_addr + num_pages * PAGE_SIZE), the j-th page at
\* start_addr + j * PAGE_SIZE.
C13_StaysInRegion ==
    \A c \in Calls : \A j \in DOMAIN c.ops :
        /\ c.ops[j].addr >= opts.start_addr
        /\ c.ops[j].addr < opts.start_addr + opts.num_pages * PAGE_SIZE
        /\ c.ops[j].addr = opts.start_addr + (j - 1) * PAGE_SIZE

\* a header the scan may take: Active, version 1, a known kind
Qualifies(h) == IsActive(h.flags) /\ h.version = FsVersion /\ h.kind = KindStandard

\* C17: the recovery scan never selects a page it must skip.  The index init
\* holds is that of a scanned page whose header is Active with version 1 and
\* a known kind; when no page qualifies the store is formatted.
C17_NeverSelectsSkipped ==
    /\ pc = "init" =>
          \A x \in current_index :
              \E p \in 0 .. i - 1 : Qualifies(flash[p].hdr) /\ flash[p].hdr.index = x
    /\ (/\ HasLast /\ pc = "idle"
        /\ Last.op = "new" /\ Completed(Last)
        /\ \A p \in Configured(opts) : ~Qualifies(Last.pre[p].hdr))
       => Last.fmt /\ Last.res.tag = "Ok"

(* ------------------------ opening the store alone ---------------------- *)

\* Kvs::new on any stored headers
InitOpen ==
    /\ InitStore
    /\ opts \in Configs
    /\ flash \in [PageNums -> {[hdr |-> h, entries |-> <<>>] : h \in HeaderImages}]
    /\ \A p \in PageNums \ Configured(opts) : flash[p] = ErasedPage
    /\ budget = MaxOpenCalls

NextOpen ==
    \/ New
    \/ InitScan
    \/ InitFinish
    \/ Reset

SpecOpen == InitOpen /\ [][NextOpen]_vars

InitErase ==
    /\ page_active = Zero32
    /\ page_offset = 0
    /\ pc = "idle"
    /\ i = 0
    /\ current_index = {}
    /\ call = NoCall
    /\ hist = <<>>
    /\ opts \in Configs
    /\ flash \in [PageNums -> {[hdr |-> h, entries |-> <<>>] : h \in HeaderImages}]
    /\ \A p \in PageNums \ Configured(opts) : flash[p] = ErasedPage
    /\ budget = MaxEraseCalls

NextErase ==
    \/ EraseAllCall
    \/ EraseStep
    \/ EraseAllDone
    \/ Reset

SpecErase == InitErase /\ [][NextErase]_vars

\* C20: erase_all erases in order and stops at the first failure.  It calls
\* erase_page for pages 0, 1, ... in ascending order, once each; when the
\* erase of page j fails with e it returns Err(Error::Flash(e)) at once, with
\* pages 0..j-1 erased and pages j+1.. not erased; when none fails it
\* returns Ok and all num_pages pages have been erased once.
C20_EraseAllInOrder ==
    \A n \in 1 .. Len(hist) :
        LET h == hist[n]
            m == Len(h.ops)
        IN  (h.op = "erase_all" /\ h.res.tag # "Reset") =>
              /\ \A j \in 1 .. m :
                    /\ h.ops[j].kind = "erase"
                    /\ h.ops[j].addr = (j - 1) * PAGE_SIZE
                    /\ j < m => h.ops[j].out = "ok"
              /\ IF m > 0 /\ h.ops[m].out # "ok"
                 THEN /\ h.res = ErrFlash(h.ops[m].out)
                      /\ \A p \in 0 .. m - 2 : h.post[p] = ErasedPage
                      /\ \A p \in m .. opts.num_pages - 1 : h.post[p] = h.pre[p]
                 ELSE /\ h.res = Ok(0)
                      /\ m = opts.num_pages
                      /\ \A p \in 0 .. opts.num_pages - 1 : h.post[p] = ErasedPage

\* erase_all erased page 0, which held a header, the erase of page 1 failed
\* with E2, and Err(Flash(E2)) came back
C20_Witness ==
    /\ HasLast
    /\ Last.op = "erase_all"
    /\ Len(Last.ops) = 2
    /\ Last.ops[2].out = "E2"
    /\ Last.res = ErrFlash("E2")
    /\ Last.pre[0] # ErasedPage
    /\ Last.post[0] = ErasedPage
    /\ Last.post[1] = Last.pre[1]

====
